---------------------------- MODULE Spec2Model ----------------------------
(***************************************************************************)
(* Model of scripts/convert_xlsx_to_json.py: the global id map             *)
(* (id_map.json), the allocator, the origin tracker, the numeric-column    *)
(* placeholder resolver and main()'s load / convert / save life cycle.     *)
(*                                                                         *)
(* Text is modelled as a sequence of one-character strings, so that        *)
(* str.strip(), str.split(';'), str.lower() and the regular expression     *)
(* ID_TAG_RE are computed rather than assumed.                             *)
(***************************************************************************)
EXTENDS Integers, Sequences, FiniteSets, TLC

(***************************************************************************)
(* Bounds of the model and program constants                               *)
(***************************************************************************)
\* number of consecutive runs of main() over the same id_map.json
MaxRuns == 2

\* ID_START = int(os.environ.get("ID_START", "1000000"))
ID_START == 1000000

(***************************************************************************)
(* Text helpers                                                            *)
(***************************************************************************)
UNKNOWN == <<"U", "N", "K", "N", "O", "W", "N">>

\* a key that a JSON object does not have (dict.get falls back to its default)
Missing == <<"<missing>">>

IsSpace(c) == c \in {" ", "\t", "\n"}

IsDigit(c) == c \in {"0", "1", "2", "3", "4", "5", "6", "7", "8", "9"}

DigitVal(c) ==
    CASE c = "0" -> 0 [] c = "1" -> 1 [] c = "2" -> 2 [] c = "3" -> 3
      [] c = "4" -> 4 [] c = "5" -> 5 [] c = "6" -> 6 [] c = "7" -> 7
      [] c = "8" -> 8 [] c = "9" -> 9

UpperChars == <<"A", "B", "C", "D", "E", "F", "G", "H", "I", "J", "K", "L", "M",
                "N", "O", "P", "Q", "R", "S", "T", "U", "V", "W", "X", "Y", "Z">>

LowerChars == <<"a", "b", "c", "d", "e", "f", "g", "h", "i", "j", "k", "l", "m",
                "n", "o", "p", "q", "r", "s", "t", "u", "v", "w", "x", "y", "z">>

LowerChar(c) ==
    IF \E i \in 1..Len(UpperChars) : UpperChars[i] = c
    THEN LowerChars[CHOOSE i \in 1..Len(UpperChars) : UpperChars[i] = c]
    ELSE c

\* str.lower()
Lower(s) == [i \in 1..Len(s) |-> LowerChar(s[i])]

\* str.strip(): drop leading and trailing whitespace
RECURSIVE LStrip(_)
LStrip(s) ==
    IF s # <<>> /\ IsSpace(Head(s)) THEN LStrip(Tail(s)) ELSE s

RECURSIVE RStrip(_)
RStrip(s) ==
    IF s # <<>> /\ IsSpace(s[Len(s)]) THEN RStrip(SubSeq(s, 1, Len(s) - 1)) ELSE s

Strip(s) == RStrip(LStrip(s))

\* `x or "UNKNOWN"' after a strip: an empty text falls back to UNKNOWN
StripOrUnknown(s) == IF Strip(s) = <<>> THEN UNKNOWN ELSE Strip(s)

\* position of the first sep in s, 0 when there is none
FirstIndex(s, sep) ==
    IF \E i \in 1..Len(s) : s[i] = sep
    THEN CHOOSE i \in 1..Len(s) : s[i] = sep /\ \A j \in 1..(i - 1) : s[j] # sep
    ELSE 0

\* str.split(sep): the list of segments between separators
RECURSIVE Split(_, _)
Split(s, sep) ==
    LET i == FirstIndex(s, sep)
    IN  IF i = 0 THEN <<s>>
        ELSE <<SubSeq(s, 1, i - 1)>> \o Split(SubSeq(s, i + 1, Len(s)), sep)

\* sep.join(parts)
RECURSIVE Join(_, _)
Join(parts, sep) ==
    IF parts = <<>> THEN <<>>
    ELSE IF Len(parts) = 1 THEN parts[1]
    ELSE parts[1] \o <<sep>> \o Join(Tail(parts), sep)

RECURSIVE SelectParts(_)
SelectParts(parts) ==
    IF parts = <<>> THEN <<>>
    ELSE IF Strip(Head(parts)) # <<>>
         THEN <<Strip(Head(parts))>> \o SelectParts(Tail(parts))
         ELSE SelectParts(Tail(parts))

RECURSIVE DecimalValue(_)
DecimalValue(s) ==
    IF s = <<>> THEN 0
    ELSE 10 * DecimalValue(SubSeq(s, 1, Len(s) - 1)) + DigitVal(s[Len(s)])

AllDigits(s) == s # <<>> /\ \A i \in 1..Len(s) : IsDigit(s[i])

(***************************************************************************)
(* Column type annotations                                                 *)
(***************************************************************************)
\* base_type_of(t): t.split(';', 1)[0].strip().lower()
base_type_of(t) == Lower(Strip(Split(t, ";")[1]))

\* the flags of an annotation as append_id_marker reads them
MarkerParts(t) == SelectParts(Split(t, ";"))

IdMarker == <<"i", "d">>

\* append_id_marker(t): add the 'id' flag unless some flag already is 'id'
append_id_marker_Always(t) ==
    IF t = <<>> THEN <<"i", "n", "t", ";", "i", "d">>
    ELSE Join(MarkerParts(t) \o <<IdMarker>>, ";")

append_id_marker(t) ==
    IF t = <<>> THEN <<"i", "n", "t", ";", "i", "d">>
    ELSE LET parts == MarkerParts(t)
         IN  IF \E i \in 1..Len(parts) : Lower(parts[i]) = IdMarker
             THEN Join(parts, ";")
             ELSE Join(parts \o <<IdMarker>>, ";")

numeric_bases == { <<"i", "n", "t">>, <<"l", "o", "n", "g">> }

(***************************************************************************)
(* The in-memory id map: idmap["tags"], idmap["_origins"], idmap["_next"]  *)
(***************************************************************************)
EmptyMap == <<>>

Put(f, k, v) == [x \in (DOMAIN f) \cup {k} |-> IF x = k THEN v ELSE f[x]]

\* {"tags": {}, "_origins": {}, "_next": ID_START}
FreshIdMap == [tags |-> EmptyMap, _origins |-> EmptyMap, _next |-> ID_START]

UnknownOrigin == [sheetName |-> UNKNOWN, columnName |-> UNKNOWN]

Taken(idmap) == {idmap.tags[t] : t \in DOMAIN idmap.tags}

\* _alloc_next_free without the `while nxt in taken' loop
_alloc_next_free_NoSkip(idmap) ==
    [idmap |-> [idmap EXCEPT !._next = idmap._next + 1], id |-> idmap._next]

\* _alloc_next_free that hands out _next as it is and never advances it
_alloc_next_free_NoAdvance(idmap) == [idmap |-> idmap, id |-> idmap._next]

\* _alloc_next_free(idmap): the first value >= _next that no tag holds;
\* _next becomes that value + 1
_alloc_next_free(idmap) ==
    LET taken == Taken(idmap)
        nxt   == CHOOSE n \in idmap._next..(idmap._next + Cardinality(taken)) :
                     /\ n \notin taken
                     /\ \A m \in idmap._next..(n - 1) : m \in taken
    IN  [idmap |-> [idmap EXCEPT !._next = nxt + 1], id |-> nxt]

\* the UNKNOWN -> concrete refinement shared by load_id_map and
\* _set_origin_if_needed
RefineOrigin(existing, sheet_name, column_name) ==
    [sheetName  |-> IF existing.sheetName = UNKNOWN /\ sheet_name # UNKNOWN
                    THEN sheet_name ELSE existing.sheetName,
     columnName |-> IF existing.columnName = UNKNOWN /\ column_name # UNKNOWN
                    THEN column_name ELSE existing.columnName]

\* an origin recorded as a pair: set to {sheet, column} when the tag has no
\* origin or an unknown one, and left alone otherwise
_set_origin_if_needed_Pair(idmap, tag, sheet, column) ==
    IF tag \notin DOMAIN idmap._origins \/ idmap._origins[tag] = UnknownOrigin
    THEN [idmap EXCEPT !._origins =
             Put(@, tag, [sheetName  |-> StripOrUnknown(sheet),
                          columnName |-> StripOrUnknown(column)])]
    ELSE idmap

\* _set_origin_if_needed(idmap, tag, sheet_name, column_name)
_set_origin_if_needed(idmap, tag, sheet, column) ==
    LET sheet_name  == StripOrUnknown(sheet)
        column_name == StripOrUnknown(column)
    IN  IF tag \notin DOMAIN idmap._origins
        THEN [idmap EXCEPT !._origins =
                 Put(@, tag, [sheetName |-> sheet_name, columnName |-> column_name])]
        ELSE [idmap EXCEPT !._origins =
                 Put(@, tag, RefineOrigin(@[tag], sheet_name, column_name))]

(***************************************************************************)
(* Cells                                                                   *)
(***************************************************************************)
\* ID_TAG_RE = ^\[(.+?)\]$ : the whole token is one bracket pair around at
\* least one character ('.' matches no newline, '$' also matches before a
\* final newline)
TagBody(token) ==
    IF token # <<>> /\ token[Len(token)] = "\n"
    THEN SubSeq(token, 1, Len(token) - 1) ELSE token

IdTagMatches(token) ==
    LET b == TagBody(token)
    IN  /\ Len(b) >= 3
        /\ b[1] = "["
        /\ b[Len(b)] = "]"
        /\ \A i \in 2..(Len(b) - 1) : b[i] # "\n"

\* m.group(1)
IdTagGroup(token) == SubSeq(TagBody(token), 2, Len(TagBody(token)) - 1)

\* _must_int(v) on text: int(float(str(v))) for [sign] digits [. digits];
\* anything else raises
Unsigned(s) == IF s # <<>> /\ s[1] \in {"-", "+"} THEN Tail(s) ELSE s

IntPart(s) ==
    LET u == Unsigned(s)
        d == FirstIndex(u, ".")
    IN  IF d = 0 THEN u ELSE SubSeq(u, 1, d - 1)

FracPart(s) ==
    LET u == Unsigned(s)
        d == FirstIndex(u, ".")
    IN  IF d = 0 THEN <<>> ELSE SubSeq(u, d + 1, Len(u))

_must_int_ok(s) ==
    /\ AllDigits(IntPart(s))
    /\ FracPart(s) = <<>> \/ AllDigits(FracPart(s))
    /\ FirstIndex(Unsigned(s), ".") = 0 \/ FracPart(s) # <<>>

\* Python integers are unbounded and float() keeps 53 significant bits, so
\* the value of a literal is computed on its decimal digits and a cell value
\* is held as its canonical decimal text (as write_json prints it).
Digits == <<"0", "1", "2", "3", "4", "5", "6", "7", "8", "9">>

DigitChar(v) == Digits[v + 1]

\* the decimal text of a natural number, and of an integer
RECURSIVE NatText(_)
NatText(n) == IF n < 10 THEN <<DigitChar(n)>> ELSE NatText(n \div 10) \o <<DigitChar(n % 10)>>

IntText(n) == IF n < 0 THEN <<"-">> \o NatText(0 - n) ELSE NatText(n)

\* digits without leading zeros
RECURSIVE Canon(_)
Canon(ds) ==
    IF ds = <<>> THEN <<"0">>
    ELSE IF Len(ds) > 1 /\ ds[1] = "0" THEN Canon(Tail(ds)) ELSE ds

\* a < b on canonical digit texts
LessDigits(a, b) ==
    \/ Len(a) < Len(b)
    \/ /\ Len(a) = Len(b)
       /\ \E i \in 1..Len(a) :
              /\ DigitVal(a[i]) < DigitVal(b[i])
              /\ \A j \in 1..(i - 1) : a[j] = b[j]

IsOdd(ds) == DigitVal(ds[Len(ds)]) % 2 = 1

\* floor(ds / 2), by long division
RECURSIVE HalfFrom(_, _)
HalfFrom(ds, carry) ==
    IF ds = <<>> THEN <<>>
    ELSE LET v == 10 * carry + DigitVal(ds[1])
         IN  <<DigitChar(v \div 2)>> \o HalfFrom(Tail(ds), v % 2)

Half(ds) == Canon(HalfFrom(ds, 0))

\* a + b + carry on digit texts
RECURSIVE AddDigits(_, _, _)
AddDigits(a, b, carry) ==
    IF a = <<>> /\ b = <<>> THEN (IF carry = 0 THEN <<>> ELSE <<DigitChar(carry)>>)
    ELSE LET x == IF a = <<>> THEN 0 ELSE DigitVal(a[Len(a)])
             y == IF b = <<>> THEN 0 ELSE DigitVal(b[Len(b)])
             v == x + y + carry
         IN  AddDigits(IF a = <<>> THEN <<>> ELSE SubSeq(a, 1, Len(a) - 1),
                       IF b = <<>> THEN <<>> ELSE SubSeq(b, 1, Len(b) - 1),
                       v \div 10) \o <<DigitChar(v % 10)>>

RECURSIVE DoubleTimes(_, _)
DoubleTimes(ds, e) == IF e = 0 THEN ds ELSE DoubleTimes(AddDigits(ds, ds, 0), e - 1)

\* 2^53: a double holds every integer below it exactly
TwoPow53 == <<"9", "0", "0", "7", "1", "9", "9", "2", "5", "4", "7", "4", "0", "9", "9", "2">>

\* float(ds) for a natural number: shift right until 53 bits are left, round
\* to nearest with ties to even on the bits shifted out, shift back
RECURSIVE FloatRound(_, _, _, _)
FloatRound(cur, guard, sticky, e) ==
    IF LessDigits(cur, TwoPow53)
    THEN DoubleTimes(IF guard /\ (sticky \/ IsOdd(cur)) THEN AddDigits(cur, <<"1">>, 0)
                     ELSE cur, e)
    ELSE FloatRound(Half(cur), IsOdd(cur), sticky \/ guard, e + 1)

\* _must_int(v) = int(float(str(v))), as decimal text.  A fraction is cut
\* off; below 2^53 that is exact for the short fractions the tables hold.
_must_int(s) ==
    LET n == Canon(IntPart(s))
        f == FracPart(s)
        r == FloatRound(n, FALSE, \E i \in 1..Len(f) : f[i] # "0", 0)
    IN  IF s[1] = "-" /\ r # <<"0">> THEN <<"-">> \o r ELSE r

\* map_token_to_global_id(idmap, token, sheet_name, column_name):
\* the store afterwards, the value (as decimal text), was_tag, and whether
\* it raised
map_token_to_global_id(idmap, token, sheet_name, column_name) ==
    IF IdTagMatches(token)
    THEN LET tag == Strip(IdTagGroup(token))
         IN  IF tag \in DOMAIN idmap.tags
             THEN [idmap   |-> _set_origin_if_needed(idmap, tag, sheet_name, column_name),
                   val     |-> IntText(idmap.tags[tag]),
                   was_tag |-> TRUE, raised |-> FALSE, allocated |-> FALSE]
             ELSE LET a  == _alloc_next_free(idmap)
                      m1 == [a.idmap EXCEPT !.tags = Put(@, tag, a.id)]
                  IN  [idmap   |-> _set_origin_if_needed(m1, tag, sheet_name, column_name),
                       val     |-> IntText(a.id),
                       was_tag |-> TRUE, raised |-> FALSE, allocated |-> TRUE]
    ELSE IF _must_int_ok(token)
         THEN [idmap |-> idmap, val |-> _must_int(token),
               was_tag |-> FALSE, raised |-> FALSE, allocated |-> FALSE]
         ELSE [idmap |-> idmap, val |-> <<"0">>,
               was_tag |-> FALSE, raised |-> TRUE, allocated |-> FALSE]

\* map_cell(x): "" -> 0, anything else through map_token_to_global_id
map_cell(idmap, x, sheet_name, col) ==
    LET s == Strip(x)
    IN  IF s = <<>>
        THEN [idmap |-> idmap, val |-> <<"0">>,
              was_tag |-> FALSE, raised |-> FALSE, allocated |-> FALSE]
        ELSE map_token_to_global_id(idmap, s, sheet_name, col)

(***************************************************************************)
(* id_map.json.  A persisted file is absent, unreadable (not JSON, or JSON *)
(* that is not an object: raw.pop raises and the except branch starts      *)
(* fresh), or a JSON object with "tags" (a dict, a list, or anything else) *)
(* and "_next".  An integer that is missing or that int() rejects is <<>>, *)
(* an integer n is <<n>>.                                                  *)
(***************************************************************************)
Item(k, v, sheet, column) ==
    [isDict |-> TRUE, string |-> k, int |-> v, sheetName |-> sheet, columnName |-> column]

\* a list entry that is not a JSON object (a number, a string, null)
NonDictItem ==
    [isDict |-> FALSE, string |-> Missing, int |-> <<>>,
     sheetName |-> Missing, columnName |-> Missing]

\* the default of dict.get when the key is missing
GetOr(v, default) == IF v = Missing THEN default ELSE v

\* the v1 branch: for k, v in tags.items()
RECURSIVE LoadDictItems(_, _)
LoadDictItems(items, idmap) ==
    IF items = <<>> THEN idmap
    ELSE LET it  == Head(items)
             key == Strip(it.string)
         IN  IF key = <<>> \/ it.int = <<>>
             THEN LoadDictItems(Tail(items), idmap)
             ELSE LoadDictItems(Tail(items),
                      [idmap EXCEPT
                          !.tags = Put(@, key, it.int[1]),
                          !._origins = IF key \in DOMAIN @ THEN @
                                       ELSE Put(@, key, UnknownOrigin)])

\* the v2 branch: for item in tags
RECURSIVE LoadListItems(_, _)
LoadListItems(items, idmap) ==
    IF items = <<>> THEN idmap
    ELSE LET it  == Head(items)
             key == Strip(GetOr(it.string, <<>>))
         IN  IF ~it.isDict \/ key = <<>> \/ it.int = <<>>
             THEN LoadListItems(Tail(items), idmap)
             ELSE LET sheet_name  == StripOrUnknown(GetOr(it.sheetName, UNKNOWN))
                      column_name == StripOrUnknown(GetOr(it.columnName, UNKNOWN))
                  IN  LoadListItems(Tail(items),
                          [idmap EXCEPT
                              !.tags = Put(@, key, it.int[1]),
                              !._origins =
                                  IF key \in DOMAIN @
                                  THEN Put(@, key, RefineOrigin(@[key], sheet_name, column_name))
                                  ELSE Put(@, key, [sheetName  |-> sheet_name,
                                                    columnName |-> column_name])])

\* load_id_map()
load_id_map(f) ==
    IF f.kind # "json" THEN FreshIdMap
    ELSE LET start == [FreshIdMap EXCEPT
                          !._next = IF f.next = <<>> THEN ID_START ELSE f.next[1]]
         IN  CASE f.tags.shape = "dict" -> LoadDictItems(f.tags.items, start)
               [] f.tags.shape = "list" -> LoadListItems(f.tags.items, start)
               [] OTHER -> start

\* the tags by identifier descending
RECURSIVE SortedTags_Descending(_, _)
SortedTags_Descending(tags, S) ==
    IF S = {} THEN <<>>
    ELSE LET m == CHOOSE t \in S : \A u \in S : tags[t] >= tags[u]
         IN  <<m>> \o SortedTags_Descending(tags, S \ {m})

\* items.sort(key=lambda x: x[1]): the tags by identifier ascending
RECURSIVE SortedTags(_, _)
SortedTags(tags, S) ==
    IF S = {} THEN <<>>
    ELSE LET m == CHOOSE t \in S : \A u \in S : tags[t] <= tags[u]
         IN  <<m>> \o SortedTags(tags, S \ {m})

\* save_id_map(idmap): the file it writes
save_id_map(idmap) ==
    LET order == SortedTags(idmap.tags, DOMAIN idmap.tags)
        rec(key) ==
            LET known == key \in DOMAIN idmap._origins
            IN  Item(key, <<idmap.tags[key]>>,
                     IF known THEN StripOrUnknown(idmap._origins[key].sheetName)
                     ELSE UNKNOWN,
                     IF known THEN StripOrUnknown(idmap._origins[key].columnName)
                     ELSE UNKNOWN)
    IN  [kind |-> "json",
         tags |-> [shape |-> "list",
                   items |-> [i \in 1..Len(order) |-> rec(order[i])]],
         next |-> <<idmap._next>>]

(***************************************************************************)
(* Inputs: persisted files a first run may find, and target tables.        *)
(* A target is one CSV table (convert_csv): its file stem is the sheet     *)
(* name, and each column has a header, a type annotation and its cells as  *)
(* text (str(x); an empty cell is "").                                     *)
(***************************************************************************)
TagA == <<"A">>
TagB == <<"B">>
TagC == <<"C">>

SheetS1 == <<"S", "1">>
ColId   == <<"I", "d">>
ColName == <<"N", "a", "m", "e">>

FileAbsent == [kind |-> "absent"]

FileCorrupt == [kind |-> "corrupt"]

\* {"tags": {"A": 1000001}}: the flat v1 shape, written with the default ID_START
FileLegacy == [kind |-> "json",
               tags |-> [shape |-> "dict",
                         items |-> <<Item(TagA, <<ID_START + 1>>, Missing, Missing)>>],
               next |-> <<>>]

\* {"tags": {"A": 7, " ": 8, "B": "x"}}
FileLegacyLow == [kind |-> "json",
                  tags |-> [shape |-> "dict",
                            items |-> <<Item(TagA, <<7>>, Missing, Missing),
                                        Item(<<" ">>, <<8>>, Missing, Missing),
                                        Item(TagB, <<>>, Missing, Missing)>>],
                  next |-> <<>>]

\* the v2 shape as save_id_map writes it, plus a record without origin keys
FileList == [kind |-> "json",
             tags |-> [shape |-> "list",
                       items |-> <<Item(TagA, <<ID_START>>, SheetS1, ColId),
                                   Item(TagB, <<ID_START + 1>>, Missing, Missing)>>],
             next |-> <<ID_START + 2>>]

\* {"tags": null, "_next": "abc"}
FileNoTags == [kind |-> "json",
               tags |-> [shape |-> "other", items |-> <<>>],
               next |-> <<>>]

\* a store saved by a run with a lower ID_START: its _next is below ID_START
FileLowNext == [kind |-> "json",
                tags |-> [shape |-> "list",
                          items |-> <<Item(TagA, <<3>>, SheetS1, ColId)>>],
                next |-> <<4>>]

\* a record that names the sheet but not the column, and a list entry that
\* is not an object
FileHalfOrigin == [kind |-> "json",
                   tags |-> [shape |-> "list",
                             items |-> <<NonDictItem,
                                         Item(TagB, <<ID_START>>, SheetS1, Missing)>>],
                   next |-> <<ID_START + 1>>]

InitFiles == {FileAbsent, FileCorrupt, FileLegacy, FileLegacyLow, FileList, FileNoTags,
              FileLowNext, FileHalfOrigin}

Column(name, type, cells) == [name |-> name, type |-> type, cells |-> cells]

TypeInt    == <<"i", "n", "t">>
TypeString == <<"s", "t", "r", "i", "n", "g">>

\* Scenario A: [A], [B], 5 in an int column, next to a text column
TableA == [sheet |-> SheetS1,
           columns |-> <<Column(ColId, TypeInt,
                                << <<"[", "A", "]">>, <<"[", "B", "]">>, <<"5">> >>),
                         Column(ColName, TypeString,
                                << <<"[", "C", "]">>, <<"q">>, <<>> >>)>>]

\* annotations that already carry flags
TableB == [sheet |-> <<"S", "2">>,
           columns |-> <<Column(<<"K">>, <<"i", "n", "t", ";", "i", "d">>,
                                << <<"5">>, <<>> >>),
                         Column(<<"R">>, <<"L", "o", "n", "g", " ", ";", " ", "I", "D">>,
                                << <<"[", " ", "A", " ", "]">>, <<"-", "7", ".", "9">> >>),
                         Column(<<"Q">>, <<"i", "n", "t", ";", "i", "d", ";", "i", "d">>,
                                << <<" ">>, <<"[", "B", "]">> >>),
                         Column(<<"P">>, <<"i", "n", "t", ";", ";", "k", "e", "y">>,
                                << <<"[", "C", "]">>, <<"[", "C", "]">> >>)>>]

\* Scenario D: a numeric cell that is neither a placeholder nor a number
TableC == [sheet |-> <<"S", "3">>,
           columns |-> <<Column(ColId, TypeInt,
                                << <<"[", "C", "]">>, <<"x">>, <<"[", "B", "]">> >>)>>]

\* a placeholder whose bracket content is only whitespace
TableD == [sheet |-> <<"S", "4">>,
           columns |-> <<Column(ColId, TypeInt,
                                << <<"[", " ", "]">>, <<"[", "B", "]">>, <<"[", "C", "]">> >>)>>]

\* a table without data rows
TableE == [sheet |-> <<"S", "5">>,
           columns |-> <<Column(ColId, TypeInt, <<>>)>>]

\* literals: one equal to the first identifier, one above 2^53
TableF == [sheet |-> <<"S", "6">>,
           columns |-> <<Column(ColId, TypeInt,
                                << <<"1", "0", "0", "0", "0", "0", "0">>,
                                   <<"[", "A", "]">>,
                                   <<"9", "0", "0", "7", "1", "9", "9", "2", "5", "4",
                                     "7", "4", "0", "9", "9", "3">> >>)>>]

\* the target lists a run may be given, in processing order
InputSets == { <<>>, <<TableA>>, <<TableB>>, <<TableC, TableA>>, <<TableD>>,
               <<TableE, TableA, TableB>>, <<TableF>> }

(***************************************************************************)
(* State                                                                   *)
(***************************************************************************)
VARIABLES
    file,        \* id_map.json on disk
    outputs,     \* the JSON tables on disk, by sheet name
    run,         \* the number of the current run of main()
    targets,     \* main: targets
    pc,          \* main's position: start, loop, cells, raised, done
    idmap,       \* main: idmap
    fi,          \* index of the target being converted
    ci,          \* resolve_placeholders_for_numeric_columns: index of col
    ki,          \* index of the next cell of the column that apply() maps
    types,       \* convert_csv: types
    resolved,    \* df[col] as mapped so far, by column name
    mapped_columns,
    saves,       \* calls of save_id_map in this run
    attempted,   \* indexes of the targets whose conversion was started
    loaded,      \* the store as load_id_map returned it in this run
    cellLog,     \* this run's calls of map_cell: token, value, was_tag, store changed
    allocLog,    \* this run's allocations: tag, id, _next and identifiers held before
    issued,      \* every <<tag, id>> a placeholder was resolved to, all runs
    prevTargets, \* the previous run's targets
    prevOutputs, \* the tables on disk when the previous run ended
    loadedFrom,  \* id_map.json as load_id_map found it in this run
    concrete,    \* every <<tag, field, value>> an origin held with value # UNKNOWN
    proc,        \* two runs of main() at the same time: each run's own state
    lastSaver,   \* which of them called save_id_map last (0: none yet)
    loc          \* localdata_from_json.py: the sheet files and the state of a call

vars == <<file, outputs, run, targets, pc, idmap, fi, ci, ki, types, resolved,
          mapped_columns, saves, attempted, loaded, cellLog, allocLog, issued,
          prevTargets, prevOutputs, loadedFrom, concrete, proc, lastSaver, loc>>

\* the state of the two runs that share id_map.json
conc == <<proc, lastSaver>>

Procs == {1, 2}

\* a run of main() before load_id_map
ProcStart(tg) ==
    [pc |-> "start", targets |-> tg, idmap |-> FreshIdMap, loaded |-> FreshIdMap,
     fi |-> 1, ci |-> 1, ki |-> 1, types |-> EmptyMap, resolved |-> EmptyMap,
     mapped_columns |-> {}, allocated |-> {}]

\* localdata_from_json.py before a call of build_localdata_and_rewrite: the
\* sheet files under json_root in sorted order, and --rewrite_json
LocStart(fs, rw) ==
    [files |-> fs, rewrite_json |-> rw, call |-> 0, pc |-> "idle", i |-> 1,
     output_rows |-> <<>>, seen_keys |-> {}, warnings |-> 0,
     rewritten_file_count |-> 0]

Init ==
    /\ file \in InitFiles
    /\ outputs = EmptyMap
    /\ run = 1
    /\ targets \in InputSets
    /\ pc = "start"
    /\ idmap = FreshIdMap
    /\ fi = 1
    /\ ci = 1
    /\ ki = 1
    /\ types = EmptyMap
    /\ resolved = EmptyMap
    /\ mapped_columns = {}
    /\ saves = 0
    /\ attempted = {}
    /\ loaded = FreshIdMap
    /\ cellLog = <<>>
    /\ allocLog = <<>>
    /\ issued = {}
    /\ prevTargets = <<>>
    /\ prevOutputs = EmptyMap
    /\ loadedFrom = FileAbsent
    /\ concrete = {}
    /\ proc = [p \in Procs |-> ProcStart(<<>>)]
    /\ lastSaver = 0
    /\ loc = LocStart(<<>>, TRUE)

(***************************************************************************)
(* main()                                                                  *)
(***************************************************************************)
Target == targets[fi]

Col == Target.columns[ci]

\* build_types(header_row, type_row)
build_types(t) ==
    [name \in {t.columns[i].name : i \in 1..Len(t.columns)} |->
        (CHOOSE c \in {t.columns[i] : i \in 1..Len(t.columns)} : c.name = name).type]

\* base = base_type_of(types.get(col, "")); base in numeric_bases
IsNumeric(c) == base_type_of(c.type) \in numeric_bases

\* df.empty or df.columns.size == 0
DfEmpty(t) == t.columns = <<>> \/ \A i \in 1..Len(t.columns) : t.columns[i].cells = <<>>

\* the origin fields of a store that hold a value other than UNKNOWN
ConcreteOf(m) ==
    {<<t, "sheetName", m._origins[t].sheetName>> :
        t \in {u \in DOMAIN m._origins : m._origins[u].sheetName # UNKNOWN}}
    \cup
    {<<t, "columnName", m._origins[t].columnName>> :
        t \in {u \in DOMAIN m._origins : m._origins[u].columnName # UNKNOWN}}

\* a main whose load_id_map has no try/except: an unreadable file ends the
\* run before anything is converted or saved
Main_Load_NoExcept ==
    /\ pc = "start"
    /\ idmap' = load_id_map(file)
    /\ loaded' = load_id_map(file)
    /\ loadedFrom' = file
    /\ concrete' = concrete \cup ConcreteOf(load_id_map(file))
    /\ pc' = IF file.kind = "corrupt" THEN "done" ELSE "loop"
    /\ UNCHANGED <<file, outputs, run, targets, fi, ci, ki, types, resolved,
                   mapped_columns, saves, attempted, cellLog, allocLog, issued,
                   prevTargets, prevOutputs>>
    /\ UNCHANGED <<conc, loc>>

\* idmap = load_id_map()
Main_Load ==
    /\ pc = "start"
    /\ idmap' = load_id_map(file)
    /\ loaded' = load_id_map(file)
    /\ loadedFrom' = file
    /\ concrete' = concrete \cup ConcreteOf(load_id_map(file))
    /\ pc' = "loop"
    /\ UNCHANGED <<file, outputs, run, targets, fi, ci, ki, types, resolved,
                   mapped_columns, saves, attempted, cellLog, allocLog, issued,
                   prevTargets, prevOutputs>>
    /\ UNCHANGED <<conc, loc>>

\* if not targets: save_id_map(idmap); return
Main_NoTargets ==
    /\ pc = "loop"
    /\ targets = <<>>
    /\ file' = save_id_map(idmap)
    /\ saves' = saves + 1
    /\ pc' = "done"
    /\ UNCHANGED <<outputs, run, targets, idmap, fi, ci, ki, types, resolved,
                   mapped_columns, attempted, loaded, cellLog, allocLog, issued,
                   prevTargets, prevOutputs, loadedFrom, concrete>>
    /\ UNCHANGED <<conc, loc>>

\* convert_csv up to the call of resolve_placeholders_for_numeric_columns;
\* an empty table is skipped
Convert_Begin ==
    /\ pc = "loop"
    /\ fi <= Len(targets)
    /\ attempted' = attempted \cup {fi}
    /\ IF DfEmpty(Target)
       THEN /\ fi' = fi + 1
            /\ UNCHANGED <<pc, types>>
       ELSE /\ pc' = "cells"
            /\ types' = build_types(Target)
            /\ UNCHANGED fi
    /\ ci' = 1
    /\ ki' = 1
    /\ resolved' = EmptyMap
    /\ mapped_columns' = {}
    /\ UNCHANGED <<file, outputs, run, targets, idmap, saves, loaded, cellLog,
                   allocLog, issued, prevTargets, prevOutputs, loadedFrom, concrete>>
    /\ UNCHANGED <<conc, loc>>

\* one call of map_cell by df[col].apply; an exception leaves convert_csv
\* (which logs and re-raises) and the for loop of main
Resolve_Cell ==
    /\ pc = "cells"
    /\ ci <= Len(Target.columns)
    /\ IsNumeric(Col)
    /\ ki <= Len(Col.cells)
    /\ LET x == Col.cells[ki]
           r == map_cell(idmap, x, Target.sheet, Col.name)
           tag == Strip(IdTagGroup(Strip(x)))
       IN  IF r.raised
           THEN /\ pc' = "raised"
                /\ UNCHANGED <<idmap, ki, resolved, mapped_columns, cellLog,
                               allocLog, issued, concrete>>
           ELSE /\ idmap' = r.idmap
                /\ ki' = ki + 1
                /\ resolved' = Put(resolved, Col.name,
                                   Append(IF Col.name \in DOMAIN resolved
                                          THEN resolved[Col.name] ELSE <<>>, r.val))
                /\ mapped_columns' = IF r.was_tag THEN mapped_columns \cup {Col.name}
                                     ELSE mapped_columns
                /\ cellLog' = Append(cellLog,
                                     [token |-> x, val |-> r.val, was_tag |-> r.was_tag,
                                      changed |-> r.idmap # idmap])
                /\ allocLog' = IF r.allocated
                               THEN Append(allocLog, [tag |-> tag, id |-> r.idmap.tags[tag],
                                                      from |-> idmap._next,
                                                      before |-> Taken(idmap)])
                               ELSE allocLog
                /\ issued' = IF r.was_tag THEN issued \cup {<<tag, r.idmap.tags[tag]>>} ELSE issued
                /\ concrete' = concrete \cup ConcreteOf(r.idmap)
                /\ UNCHANGED pc
    /\ UNCHANGED <<file, outputs, run, targets, fi, ci, types, saves, attempted,
                   loaded, prevTargets, prevOutputs, loadedFrom>>
    /\ UNCHANGED <<conc, loc>>

\* for col in df.columns: the next column (a non-numeric one is skipped)
Resolve_NextColumn ==
    /\ pc = "cells"
    /\ ci <= Len(Target.columns)
    /\ ~IsNumeric(Col) \/ ki > Len(Col.cells)
    /\ ci' = ci + 1
    /\ ki' = 1
    /\ UNCHANGED <<file, outputs, run, targets, pc, idmap, fi, types, resolved,
                   mapped_columns, saves, attempted, loaded, cellLog, allocLog,
                   issued, prevTargets, prevOutputs, loadedFrom, concrete>>
    /\ UNCHANGED <<conc, loc>>

\* for col in mapped_columns: types[col] = append_id_marker(types.get(col, "int"))
MarkedTypes(ty, cols) ==
    [name \in DOMAIN ty |-> IF name \in cols THEN append_id_marker(ty[name]) ELSE ty[name]]

\* the columns that resolve_placeholders_for_numeric_columns left as they were
TextColumns(t) ==
    LET cs == {t.columns[i] : i \in 1..Len(t.columns)}
    IN  [name \in {c.name : c \in {d \in cs : ~IsNumeric(d)}} |->
            (CHOOSE c \in cs : c.name = name).cells]

\* the end of resolve_placeholders_for_numeric_columns and write_json
Convert_End ==
    /\ pc = "cells"
    /\ ci > Len(Target.columns)
    /\ types' = MarkedTypes(types, mapped_columns)
    /\ outputs' = Put(outputs, Target.sheet,
                      [types    |-> MarkedTypes(types, mapped_columns),
                       resolved |-> resolved,
                       text     |-> TextColumns(Target)])
    /\ fi' = fi + 1
    /\ pc' = "loop"
    /\ UNCHANGED <<file, run, targets, idmap, ci, ki, resolved, mapped_columns,
                   saves, attempted, loaded, cellLog, allocLog, issued,
                   prevTargets, prevOutputs, loadedFrom, concrete>>
    /\ UNCHANGED <<conc, loc>>

\* a main whose save is not in a finally clause: only a run without an
\* exception saves
Main_Finally_NoFinally ==
    /\ \/ pc = "loop" /\ targets # <<>> /\ fi > Len(targets)
       \/ pc = "raised"
    /\ file' = IF pc = "raised" THEN file ELSE save_id_map(idmap)
    /\ saves' = IF pc = "raised" THEN saves ELSE saves + 1
    /\ pc' = "done"
    /\ UNCHANGED <<outputs, run, targets, idmap, fi, ci, ki, types, resolved,
                   mapped_columns, attempted, loaded, cellLog, allocLog, issued,
                   prevTargets, prevOutputs, loadedFrom, concrete>>
    /\ UNCHANGED <<conc, loc>>

\* a main that rolls back on failure: after an exception it saves the store
\* as it was loaded
Main_Finally_Rollback ==
    /\ \/ pc = "loop" /\ targets # <<>> /\ fi > Len(targets)
       \/ pc = "raised"
    /\ file' = save_id_map(IF pc = "raised" THEN loaded ELSE idmap)
    /\ saves' = saves + 1
    /\ pc' = "done"
    /\ UNCHANGED <<outputs, run, targets, idmap, fi, ci, ki, types, resolved,
                   mapped_columns, attempted, loaded, cellLog, allocLog, issued,
                   prevTargets, prevOutputs, loadedFrom, concrete>>
    /\ UNCHANGED <<conc, loc>>

\* finally: save_id_map(idmap), after the loop ended or an exception left it
Main_Finally ==
    /\ \/ pc = "loop" /\ targets # <<>> /\ fi > Len(targets)
       \/ pc = "raised"
    /\ file' = save_id_map(idmap)
    /\ saves' = saves + 1
    /\ pc' = "done"
    /\ UNCHANGED <<outputs, run, targets, idmap, fi, ci, ki, types, resolved,
                   mapped_columns, attempted, loaded, cellLog, allocLog, issued,
                   prevTargets, prevOutputs, loadedFrom, concrete>>
    /\ UNCHANGED <<conc, loc>>

\* the script is started again, on the id_map.json and tables the last run left
NextRun ==
    /\ pc = "done"
    /\ run < MaxRuns
    /\ run' = run + 1
    /\ targets' \in InputSets
    /\ prevTargets' = targets
    /\ prevOutputs' = outputs
    /\ pc' = "start"
    /\ idmap' = FreshIdMap
    /\ loaded' = FreshIdMap
    /\ fi' = 1
    /\ ci' = 1
    /\ ki' = 1
    /\ types' = EmptyMap
    /\ resolved' = EmptyMap
    /\ mapped_columns' = {}
    /\ saves' = 0
    /\ attempted' = {}
    /\ cellLog' = <<>>
    /\ allocLog' = <<>>
    /\ UNCHANGED <<file, outputs, issued, loadedFrom, concrete>>
    /\ UNCHANGED <<conc, loc>>

Next ==
    \/ Main_Load
    \/ Main_NoTargets
    \/ Convert_Begin
    \/ Resolve_Cell
    \/ Resolve_NextColumn
    \/ Convert_End
    \/ Main_Finally
    \/ NextRun

Spec == Init /\ [][Next]_vars

(***************************************************************************)
(* Two runs of main() at the same time, as two processes that share        *)
(* id_map.json and the output directory.  Each has its own idmap; the      *)
(* steps of one run are those of main() above.                             *)
(***************************************************************************)
\* the variables of the single run, which the two processes leave alone
single == <<run, targets, pc, idmap, fi, ci, ki, types, resolved, mapped_columns,
            saves, attempted, loaded, cellLog, allocLog, issued, prevTargets,
            prevOutputs, loadedFrom, concrete>>

\* the target lists the two runs may be given
ConcInputs == { <<>>, <<TableA>>, <<TableC, TableA>>, <<TableD>>, <<TableE, TableF>> }

ConcInit ==
    /\ file \in InitFiles
    /\ outputs = EmptyMap
    /\ run = 1
    /\ targets = <<>>
    /\ pc = "start"
    /\ idmap = FreshIdMap
    /\ fi = 1
    /\ ci = 1
    /\ ki = 1
    /\ types = EmptyMap
    /\ resolved = EmptyMap
    /\ mapped_columns = {}
    /\ saves = 0
    /\ attempted = {}
    /\ loaded = FreshIdMap
    /\ cellLog = <<>>
    /\ allocLog = <<>>
    /\ issued = {}
    /\ prevTargets = <<>>
    /\ prevOutputs = EmptyMap
    /\ loadedFrom = FileAbsent
    /\ concrete = {}
    /\ proc \in [Procs -> {ProcStart(tg) : tg \in ConcInputs}]
    /\ lastSaver = 0
    /\ loc = LocStart(<<>>, TRUE)

PTarget(p) == proc[p].targets[proc[p].fi]

PCol(p) == PTarget(p).columns[proc[p].ci]

\* idmap = load_id_map()
Conc_Load(p) ==
    /\ proc[p].pc = "start"
    /\ proc' = [proc EXCEPT ![p].pc = "loop",
                            ![p].idmap = load_id_map(file),
                            ![p].loaded = load_id_map(file)]
    /\ UNCHANGED <<file, outputs, lastSaver, single, loc>>

\* if not targets: save_id_map(idmap); return
Conc_NoTargets(p) ==
    /\ proc[p].pc = "loop"
    /\ proc[p].targets = <<>>
    /\ file' = save_id_map(proc[p].idmap)
    /\ lastSaver' = p
    /\ proc' = [proc EXCEPT ![p].pc = "done"]
    /\ UNCHANGED <<outputs, single, loc>>

\* convert_csv up to the call of resolve_placeholders_for_numeric_columns
Conc_Begin(p) ==
    /\ proc[p].pc = "loop"
    /\ proc[p].fi <= Len(proc[p].targets)
    /\ proc' = IF DfEmpty(PTarget(p))
               THEN [proc EXCEPT ![p].fi = @ + 1, ![p].ci = 1, ![p].ki = 1,
                                 ![p].resolved = EmptyMap, ![p].mapped_columns = {}]
               ELSE [proc EXCEPT ![p].pc = "cells", ![p].ci = 1, ![p].ki = 1,
                                 ![p].types = build_types(PTarget(p)),
                                 ![p].resolved = EmptyMap, ![p].mapped_columns = {}]
    /\ UNCHANGED <<file, outputs, lastSaver, single, loc>>

\* one call of map_cell by df[col].apply
Conc_Cell(p) ==
    /\ proc[p].pc = "cells"
    /\ proc[p].ci <= Len(PTarget(p).columns)
    /\ IsNumeric(PCol(p))
    /\ proc[p].ki <= Len(PCol(p).cells)
    /\ LET x == PCol(p).cells[proc[p].ki]
           r == map_cell(proc[p].idmap, x, PTarget(p).sheet, PCol(p).name)
           tag == Strip(IdTagGroup(Strip(x)))
           name == PCol(p).name
       IN  proc' = IF r.raised
                   THEN [proc EXCEPT ![p].pc = "raised"]
                   ELSE [proc EXCEPT
                            ![p].idmap = r.idmap,
                            ![p].ki = @ + 1,
                            ![p].resolved =
                                Put(@, name, Append(IF name \in DOMAIN @ THEN @[name]
                                                    ELSE <<>>, r.val)),
                            ![p].mapped_columns = IF r.was_tag THEN @ \cup {name} ELSE @,
                            ![p].allocated = IF r.allocated THEN @ \cup {tag} ELSE @]
    /\ UNCHANGED <<file, outputs, lastSaver, single, loc>>

\* for col in df.columns: the next column
Conc_NextColumn(p) ==
    /\ proc[p].pc = "cells"
    /\ proc[p].ci <= Len(PTarget(p).columns)
    /\ ~IsNumeric(PCol(p)) \/ proc[p].ki > Len(PCol(p).cells)
    /\ proc' = [proc EXCEPT ![p].ci = @ + 1, ![p].ki = 1]
    /\ UNCHANGED <<file, outputs, lastSaver, single, loc>>

\* the end of resolve_placeholders_for_numeric_columns and write_json
Conc_End(p) ==
    /\ proc[p].pc = "cells"
    /\ proc[p].ci > Len(PTarget(p).columns)
    /\ outputs' = Put(outputs, PTarget(p).sheet,
                      [types    |-> MarkedTypes(proc[p].types, proc[p].mapped_columns),
                       resolved |-> proc[p].resolved,
                       text     |-> TextColumns(PTarget(p))])
    /\ proc' = [proc EXCEPT ![p].pc = "loop", ![p].fi = @ + 1,
                            ![p].types = MarkedTypes(@, proc[p].mapped_columns)]
    /\ UNCHANGED <<file, lastSaver, single, loc>>

\* a save that merges: the tags of the file as it is now are kept next to
\* the run's own
Conc_Finally_Merge(p) ==
    /\ \/ /\ proc[p].pc = "loop"
          /\ proc[p].targets # <<>>
          /\ proc[p].fi > Len(proc[p].targets)
       \/ proc[p].pc = "raised"
    /\ LET disk == load_id_map(file)
           mine == proc[p].idmap
           both == [mine EXCEPT
                       !.tags = [t \in DOMAIN disk.tags \cup DOMAIN mine.tags |->
                                    IF t \in DOMAIN mine.tags THEN mine.tags[t]
                                    ELSE disk.tags[t]],
                       !._origins = [t \in DOMAIN disk._origins \cup DOMAIN mine._origins |->
                                        IF t \in DOMAIN mine._origins THEN mine._origins[t]
                                        ELSE disk._origins[t]]]
       IN  file' = save_id_map(both)
    /\ lastSaver' = p
    /\ proc' = [proc EXCEPT ![p].pc = "done"]
    /\ UNCHANGED <<outputs, single, loc>>

\* finally: save_id_map(idmap)
Conc_Finally(p) ==
    /\ \/ /\ proc[p].pc = "loop"
          /\ proc[p].targets # <<>>
          /\ proc[p].fi > Len(proc[p].targets)
       \/ proc[p].pc = "raised"
    /\ file' = save_id_map(proc[p].idmap)
    /\ lastSaver' = p
    /\ proc' = [proc EXCEPT ![p].pc = "done"]
    /\ UNCHANGED <<outputs, single, loc>>

ConcNext ==
    \/ \E p \in Procs : Conc_Load(p)
    \/ \E p \in Procs : Conc_NoTargets(p)
    \/ \E p \in Procs : Conc_Begin(p)
    \/ \E p \in Procs : Conc_Cell(p)
    \/ \E p \in Procs : Conc_NextColumn(p)
    \/ \E p \in Procs : Conc_End(p)
    \/ \E p \in Procs : Conc_Finally(p)

ConcSpec == ConcInit /\ [][ConcNext]_vars

(***************************************************************************)
(* localdata_from_json.py: build_localdata_and_rewrite over the converted  *)
(* sheet files.  A sheet file is unreadable, of invalid format, or holds   *)
(* "types" (column name -> annotation, in order) and "rows".  Cell values  *)
(* are text (a number is its str()); an empty cell is "".                  *)
(***************************************************************************)
MaxCalls == 2

_LOCAL_STRING_BASE == <<"l", "o", "c", "a", "l", "_", "s", "t", "r", "i", "n", "g">>

\* _base_type(type_str): type_str.split(";", 1)[0].strip().lower()
_base_type(t) == Lower(Strip(Split(t, ";")[1]))

\* position of the first '[' or ']' in x, 0 when there is none
FirstBracket(x) ==
    IF \E i \in 1..Len(x) : x[i] \in {"[", "]"}
    THEN CHOOSE i \in 1..Len(x) :
             x[i] \in {"[", "]"} /\ \A j \in 1..(i - 1) : x[j] \notin {"[", "]"}
    ELSE 0

\* _REF_RE.finditer(suffix) with _REF_RE = \[([^\[\]]+)\]: the stripped,
\* non-empty groups in order
RECURSIVE RefScan(_)
RefScan(x) ==
    LET i == FirstIndex(x, "[")
        rest == SubSeq(x, i + 1, Len(x))
        j == FirstBracket(rest)
    IN  IF i = 0 \/ j = 0 THEN <<>>
        ELSE IF rest[j] = "[" THEN RefScan(SubSeq(rest, j, Len(rest)))
        ELSE IF j = 1 THEN RefScan(Tail(rest))
        ELSE LET name == Strip(SubSeq(rest, 1, j - 1))
             IN  (IF name = <<>> THEN <<>> ELSE <<name>>)
                     \o RefScan(SubSeq(rest, j + 1, Len(rest)))

\* _ref_columns(type_str)
_ref_columns(t) ==
    LET i == FirstIndex(t, ";")
    IN  IF i = 0 THEN <<>> ELSE RefScan(SubSeq(t, i + 1, Len(t)))

\* column_index.get(name): the position of the column, 0 for None
ColumnIndex(column_types, name) ==
    IF \E k \in 1..Len(column_types) : column_types[k].name = name
    THEN CHOOSE k \in 1..Len(column_types) : column_types[k].name = name
    ELSE 0

\* row[idx] if idx < len(row) else ""
CellAt(row, idx) == IF idx >= 1 /\ idx <= Len(row) THEN row[idx] ELSE <<>>

\* local_string_columns: (col_name, refs) of the columns whose base type is
\* local_string
IsLocalString(c) == _base_type(c.type) = _LOCAL_STRING_BASE

LocalStringColumns(column_types) ==
    LET sel == SelectSeq(column_types, IsLocalString)
    IN  [k \in 1..Len(sel) |-> [name |-> sel[k].name, refs |-> _ref_columns(sel[k].type)]]

\* for ref in ref_cols: the key parts of the reference values, or
\* missing_ref with its warning
RECURSIVE RefParts(_, _, _)
RefParts(refs, column_types, row) ==
    IF refs = <<>> THEN [missing |-> FALSE, parts |-> <<>>]
    ELSE LET ref_idx == ColumnIndex(column_types, Head(refs))
             ref_val == CellAt(row, ref_idx)
         IN  IF ref_idx = 0 \/ ref_val = <<>>
             THEN [missing |-> TRUE, parts |-> <<>>]
             ELSE LET more == RefParts(Tail(refs), column_types, row)
                  IN  [missing |-> more.missing,
                       parts   |-> <<Strip(ref_val)>> \o more.parts]

\* the body of `for local_col, ref_cols in local_string_columns' for one
\* cell; st holds row, seen_keys, output_rows, warnings, any_row_modified
LocalCell(st, lc, column_types, file_stem, sheet_name, row_i, rewrite_json) ==
    LET idx == ColumnIndex(column_types, lc.name)
        original_value == CellAt(st.row, idx)
        rp == RefParts(lc.refs, column_types, st.row)
        key == Join(<<file_stem, sheet_name>>
                        \o (IF lc.refs # <<>> THEN rp.parts ELSE <<NatText(row_i)>>), ".")
    IN  IF original_value = <<>> THEN st
        ELSE IF lc.refs # <<>> /\ rp.missing THEN [st EXCEPT !.warnings = @ + 1]
        ELSE IF Strip(original_value) = key THEN st
        ELSE [row |-> IF rewrite_json THEN [st.row EXCEPT ![idx] = key] ELSE st.row,
              seen_keys |-> st.seen_keys \cup {key},
              output_rows |-> IF key \in st.seen_keys THEN st.output_rows
                              ELSE Append(st.output_rows,
                                          [key |-> key, ko |-> original_value,
                                           en |-> <<>>, ja |-> <<>>]),
              warnings |-> IF key \in st.seen_keys THEN st.warnings + 1 ELSE st.warnings,
              any_row_modified |-> st.any_row_modified \/ rewrite_json]

RECURSIVE LocalRow(_, _, _, _, _, _, _)
LocalRow(st, lcs, column_types, file_stem, sheet_name, row_i, rewrite_json) ==
    IF lcs = <<>> THEN st
    ELSE LocalRow(LocalCell(st, Head(lcs), column_types, file_stem, sheet_name, row_i, rewrite_json),
                  Tail(lcs), column_types, file_stem, sheet_name, row_i, rewrite_json)

\* `for row_i, row in enumerate(rows)': acc holds the rows done so far
RECURSIVE LocalRows(_, _, _, _)
LocalRows(acc, f, row_i, rewrite_json) ==
    IF row_i > Len(f.rows) THEN acc
    ELSE LET st == LocalRow([row |-> f.rows[row_i], seen_keys |-> acc.seen_keys,
                             output_rows |-> acc.output_rows, warnings |-> acc.warnings,
                             any_row_modified |-> acc.any_row_modified],
                            LocalStringColumns(f.types), f.types, f.file_stem,
                            f.sheet_name, row_i, rewrite_json)
         IN  LocalRows([rows |-> Append(acc.rows, st.row), seen_keys |-> st.seen_keys,
                        output_rows |-> st.output_rows, warnings |-> st.warnings,
                        any_row_modified |-> st.any_row_modified],
                       f, row_i + 1, rewrite_json)

\* sheet files
TypeOf(name, type) == [name |-> name, type |-> type]

SheetFile(stem, sheet, column_types, rows) ==
    [kind |-> "sheet", file_stem |-> stem, sheet_name |-> sheet,
     types |-> column_types, rows |-> rows]

TLocal == _LOCAL_STRING_BASE

\* "local_string;[Id]"
TLocalById == _LOCAL_STRING_BASE \o <<";", "[", "I", "d", "]">>

\* an unparseable file, and one without "types"/"rows"
SheetUnreadable ==
    [kind |-> "unreadable", file_stem |-> <<"A">>, sheet_name |-> <<"A">>,
     types |-> <<>>, rows |-> <<>>]

SheetInvalid ==
    [kind |-> "invalid", file_stem |-> <<"B">>, sheet_name |-> <<"B">>,
     types |-> <<>>, rows |-> <<>>]

\* no local_string column
SheetPlain ==
    SheetFile(<<"C">>, <<"C">>, <<TypeOf(<<"I", "d">>, <<"i", "n", "t">>)>>, << <<<<"7">>>> >>)

\* keys by reference and by row index; an empty cell; a duplicate key
SheetNpc ==
    SheetFile(<<"N">>, <<"N">>,
              <<TypeOf(<<"I", "d">>, <<"i", "n", "t", ";", "i", "d">>),
                TypeOf(<<"N", "a", "m", "e">>, <<" ", "L", "o", "c", "a", "l", "_", "S",
                                               "t", "r", "i", "n", "g", " ", ";", "[",
                                               " ", "I", "d", " ", "]">>),
                TypeOf(<<"D">>, TLocal)>>,
              << << <<"7">>, <<"B", "o", "b">>, <<"h", "i">> >>,
                 << <<"8">>, <<>>, <<"y", "o">> >>,
                 << <<"7">>, <<"A", "l">>, <<>> >> >>)

\* a reference to a column that does not exist, and an empty reference value
SheetMiss ==
    SheetFile(<<"M">>, <<"S">>,
              <<TypeOf(<<"I", "d">>, <<"i", "n", "t">>),
                TypeOf(<<"T">>, _LOCAL_STRING_BASE \o <<";", "[", "X", "]">>),
                TypeOf(<<"V">>, TLocalById)>>,
              << << <<>>, <<"a">>, <<"c">> >> >>)

\* a local_string column whose key refers to a local_string column after it
SheetChain ==
    SheetFile(<<"F">>, <<"F">>,
              <<TypeOf(<<"T">>, _LOCAL_STRING_BASE \o <<";", "[", "U", "]">>),
                TypeOf(<<"U">>, TLocal)>>,
              << << <<"a">>, <<"b">> >> >>)

\* the same two columns in the other order
SheetChainBefore ==
    SheetFile(<<"G">>, <<"G">>,
              <<TypeOf(<<"U">>, TLocal),
                TypeOf(<<"T">>, _LOCAL_STRING_BASE \o <<";", "[", "U", "]">>)>>,
              << << <<"b">>, <<"a">> >> >>)

\* the directories a call may find, each in sorted order
LocInputs == { <<>>, <<SheetNpc>>, <<SheetUnreadable, SheetInvalid, SheetPlain, SheetNpc>>,
               <<SheetMiss, SheetNpc>>, <<SheetChain>>, <<SheetChainBefore, SheetNpc>>,
               <<SheetChain, SheetChainBefore, SheetMiss>>, <<SheetChain, SheetNpc>>,
               <<SheetPlain, SheetMiss>> }

\* the variables of the converter, which the localization script leaves alone
converter == <<file, outputs, single, conc>>

LocInit ==
    /\ file = FileAbsent
    /\ outputs = EmptyMap
    /\ run = 1
    /\ targets = <<>>
    /\ pc = "start"
    /\ idmap = FreshIdMap
    /\ fi = 1
    /\ ci = 1
    /\ ki = 1
    /\ types = EmptyMap
    /\ resolved = EmptyMap
    /\ mapped_columns = {}
    /\ saves = 0
    /\ attempted = {}
    /\ loaded = FreshIdMap
    /\ cellLog = <<>>
    /\ allocLog = <<>>
    /\ issued = {}
    /\ prevTargets = <<>>
    /\ prevOutputs = EmptyMap
    /\ loadedFrom = FileAbsent
    /\ concrete = {}
    /\ proc = [p \in Procs |-> ProcStart(<<>>)]
    /\ lastSaver = 0
    /\ loc \in {LocStart(fs, rw) : fs \in LocInputs, rw \in BOOLEAN}

\* main(): build_localdata_and_rewrite(json_root, rewrite_json) is called
Loc_Call ==
    /\ loc.pc \in {"idle", "returned"}
    /\ loc.call < MaxCalls
    /\ loc' = [loc EXCEPT !.call = @ + 1, !.pc = "files", !.i = 1,
                          !.output_rows = <<>>, !.seen_keys = {}, !.warnings = 0,
                          !.rewritten_file_count = 0]
    /\ UNCHANGED converter

\* one round of `for file_stem, sheet_name, json_path in sorted(...)'
Loc_File ==
    /\ loc.pc = "files"
    /\ loc.i <= Len(loc.files)
    /\ LET f == loc.files[loc.i]
           r == LocalRows([rows |-> <<>>, seen_keys |-> loc.seen_keys,
                           output_rows |-> loc.output_rows, warnings |-> loc.warnings,
                           any_row_modified |-> FALSE],
                          f, 1, loc.rewrite_json)
       IN  loc' = IF f.kind # "sheet"
                  THEN [loc EXCEPT !.i = @ + 1, !.warnings = @ + 1]
                  ELSE IF LocalStringColumns(f.types) = <<>>
                  THEN [loc EXCEPT !.i = @ + 1]
                  ELSE [loc EXCEPT
                           !.i = @ + 1,
                           !.seen_keys = r.seen_keys,
                           !.output_rows = r.output_rows,
                           !.warnings = r.warnings,
                           !.files[loc.i].rows =
                               IF loc.rewrite_json /\ r.any_row_modified THEN r.rows ELSE @,
                           !.rewritten_file_count =
                               IF loc.rewrite_json /\ r.any_row_modified THEN @ + 1 ELSE @]
    /\ UNCHANGED converter

\* return output_rows, warnings, rewritten_file_count
Loc_Return ==
    /\ loc.pc = "files"
    /\ loc.i > Len(loc.files)
    /\ loc' = [loc EXCEPT !.pc = "returned"]
    /\ UNCHANGED converter

LocNext ==
    \/ Loc_Call
    \/ Loc_File
    \/ Loc_Return

LocSpec == LocInit /\ [][LocNext]_vars

(***************************************************************************)
(* Properties                                                              *)
(***************************************************************************)
InjectiveMap(f) == \A a, b \in DOMAIN f : f[a] = f[b] => a = b

\* no two records of the persisted file give one identifier to two tags
FileInjective(f) ==
    f.kind = "json" =>
        \A i, j \in 1..Len(f.tags.items) :
            LET a == f.tags.items[i]
                b == f.tags.items[j]
            IN  (a.int # <<>> /\ a.int = b.int) => Strip(a.string) = Strip(b.string)

Max(S) == CHOOSE x \in S : \A y \in S : y <= x

\* the whole cell is a placeholder, as map_cell sees it
IsPlaceholder(x) == IdTagMatches(Strip(x))

TagOf(x) == Strip(IdTagGroup(Strip(x)))

C2_Stability == \A p, q \in issued : p[1] = q[1] => p[2] = q[2]

\* C3 (I3, monotonic allocation): an identifier allocated for a new tag is
\* greater than every identifier a tag of the store held at that moment.
C3_Monotonic ==
    \A k \in 1..Len(allocLog) : \A v \in allocLog[k].before : allocLog[k].id > v

\* C4: the identifier allocated for a new tag is
\* max(identifiers held by tags, ID_START - 1) + 1, a function of the
\* tag -> identifier map alone.
C4_MaxPlusOne ==
    \A k \in 1..Len(allocLog) :
        allocLog[k].id = Max(allocLog[k].before \cup {ID_START - 1}) + 1

\* C5 (save exactly once): a run has called save_id_map once when it has
\* ended and not at all before, whether it had no targets, converted all of
\* them, or a conversion raised.
C5_SaveOnce == saves <= 1 /\ (pc = "done" <=> saves = 1)

\* C5's case: a run that ended after a conversion raised part-way
C5_Witness == pc = "done" /\ saves = 1 /\ fi <= Len(targets) /\ cellLog # <<>>

\* C6 (per-file failure isolation): when a run has ended, every target was
\* converted or at least started, also those after a target that failed,
\* and the store was saved.
C6_Isolation == pc = "done" => (attempted = 1..Len(targets) /\ saves = 1)

\* the table a JSON table on disk was converted from
Tables == {TableA, TableB, TableC, TableD, TableE, TableF}

TableOf(sheet) == CHOOSE t \in Tables : t.sheet = sheet

NumericColumns(t) == {c \in {t.columns[i] : i \in 1..Len(t.columns)} : IsNumeric(c)}

HasPlaceholder(c) == \E k \in 1..Len(c.cells) : IsPlaceholder(c.cells[k])

\* how many flags of an annotation are the 'id' marker
MarkerCount(t) ==
    Cardinality({i \in 1..Len(MarkerParts(t)) : Lower(MarkerParts(t)[i]) = IdMarker})

\* C7 (marker removal): in every converted table, a numeric column none of
\* whose cells was a placeholder carries no 'id' marker, whatever its
\* annotation was before.
C7_MarkerRemoved ==
    \A sheet \in DOMAIN outputs :
        \A c \in NumericColumns(TableOf(sheet)) :
            ~HasPlaceholder(c) => MarkerCount(outputs[sheet].types[c.name]) = 0

\* C8 as stated (marker presence): in every converted table, a numeric
\* column with at least one placeholder cell carries the 'id' marker exactly
\* once, and its base type is the one it had.
C8_MarkerOnce ==
    \A sheet \in DOMAIN outputs :
        \A c \in NumericColumns(TableOf(sheet)) :
            HasPlaceholder(c) =>
                /\ MarkerCount(outputs[sheet].types[c.name]) = 1
                /\ base_type_of(outputs[sheet].types[c.name]) = base_type_of(c.type)

\* C8 as amended: such a column carries the marker at least once - exactly
\* once when its annotation carried it at most once before, and as often as
\* before otherwise - and its base type is the one it had.
C8_MarkerPresent ==
    \A sheet \in DOMAIN outputs :
        \A c \in NumericColumns(TableOf(sheet)) :
            HasPlaceholder(c) =>
                /\ MarkerCount(outputs[sheet].types[c.name]) =
                       (IF MarkerCount(c.type) = 0 THEN 1 ELSE MarkerCount(c.type))
                /\ base_type_of(outputs[sheet].types[c.name]) = base_type_of(c.type)

\* C8's case: a converted table with a placeholder column that had no
\* marker and one whose annotation already carried a marker
C8_Witness ==
    \E sheet \in DOMAIN outputs :
        \E c, d \in NumericColumns(TableOf(sheet)) :
            /\ HasPlaceholder(c) /\ MarkerCount(c.type) = 0
            /\ HasPlaceholder(d) /\ MarkerCount(d.type) = 1
            /\ outputs[sheet].types[c.name] # c.type

\* C9 (idempotence across runs): a run over the targets of the previous
\* run, from the store that run saved, ends having allocated nothing, with
\* the same converted tables and with the store it loaded.
C9_Idempotent ==
    (run > 1 /\ targets = prevTargets /\ pc = "done") =>
        /\ allocLog = <<>>
        /\ outputs = prevOutputs
        /\ idmap = loaded

\* an integer literal: [sign] digits
IsIntLiteral(s) == AllDigits(Unsigned(s))

\* its canonical decimal text: no '+', no leading zeros, no '-0'
LiteralText(s) ==
    LET n == Canon(Unsigned(s))
    IN  IF s[1] = "-" /\ n # <<"0">> THEN <<"-">> \o n ELSE n

\* the tags of the placeholders among the first n cells of this run
TagsSeen(n) == {TagOf(cellLog[m].token) : m \in {j \in 1..n : IsPlaceholder(cellLog[j].token)}}

FirstSeenAt(tag) ==
    CHOOSE j \in 1..Len(cellLog) :
        /\ IsPlaceholder(cellLog[j].token) /\ TagOf(cellLog[j].token) = tag
        /\ \A m \in 1..(j - 1) :
               ~(IsPlaceholder(cellLog[m].token) /\ TagOf(cellLog[m].token) = tag)

\* C10 (first-seen order on a fresh store): in a run whose store was loaded
\* fresh, the k-th distinct tag in processing order is resolved to
\* ID_START + k - 1 at each of its occurrences, an integer literal to its
\* value, and an empty cell to 0.
C10_FirstSeenOrder ==
    loaded = FreshIdMap =>
        \A i \in 1..Len(cellLog) :
            LET x == cellLog[i].token
                s == Strip(x)
            IN  /\ s = <<>> => cellLog[i].val = <<"0">>
                /\ IsPlaceholder(x) =>
                       cellLog[i].val =
                           IntText(ID_START + Cardinality(TagsSeen(FirstSeenAt(TagOf(x)))) - 1)
                /\ (s # <<>> /\ ~IsPlaceholder(x) /\ IsIntLiteral(s)) =>
                       cellLog[i].val = LiteralText(s)

\* C11: within a run, the identifiers issued to newly seen tags are strictly
\* increasing in allocation order.
C11_Increasing ==
    \A j, k \in 1..Len(allocLog) : j < k => allocLog[j].id < allocLog[k].id

\* C11's case: a run that loaded tags and issued three identifiers
C11_Witness == Len(allocLog) >= 3 /\ DOMAIN loaded.tags # {}

\* C12 (threshold floor): every identifier issued to a newly seen tag is at
\* least ID_START, whatever id_map.json held.
C12_Floor == \A k \in 1..Len(allocLog) : allocLog[k].id >= ID_START

\* C13 (I4, one-directional refinement): an origin field that once held a
\* concrete value holds that value in the store of every later state, in
\* this run and after every save/load cycle.
C13_OneDirectional ==
    pc \in {"loop", "cells", "raised", "done"} =>
        \A x \in concrete :
            /\ x[1] \in DOMAIN idmap._origins
            /\ idmap._origins[x[1]][x[2]] = x[3]

\* the (sheet, column) pairs under which a tag is observed: in a numeric
\* column of a table, or in a record of a persisted file
Recordings(tag) ==
    UNION {{[sheetName |-> StripOrUnknown(t.sheet), columnName |-> StripOrUnknown(c.name)] :
               c \in {d \in NumericColumns(t) :
                         \E k \in 1..Len(d.cells) :
                             IsPlaceholder(d.cells[k]) /\ TagOf(d.cells[k]) = tag}} :
           t \in Tables}

LoadedOrigins(tag) ==
    UNION {{[sheetName  |-> StripOrUnknown(GetOr(f.tags.items[i].sheetName, UNKNOWN)),
             columnName |-> StripOrUnknown(GetOr(f.tags.items[i].columnName, UNKNOWN))] :
               i \in {j \in 1..Len(f.tags.items) :
                         /\ f.tags.items[j].isDict
                         /\ Strip(GetOr(f.tags.items[j].string, <<>>)) = tag}} :
           f \in {g \in InitFiles : g.kind = "json"}}

\* C14 as stated (origin is a pair): a tag's origin is unknown or exactly
\* the (sheet, column) of one single observation.
C14_PairOrigin ==
    \A t \in DOMAIN idmap._origins :
        \/ idmap._origins[t] = UnknownOrigin
        \/ idmap._origins[t] \in Recordings(t) \cup LoadedOrigins(t)

\* C14 as amended (origin is refined field by field): resolving a
\* placeholder sets each origin field of its tag on its own - a field that
\* is absent or UNKNOWN takes the stripped sheet or column of the cell, a
\* field that holds a concrete value keeps it - and leaves every other tag's
\* origin alone.
C14_FieldWise ==
    [][(pc = "cells" /\ Len(cellLog') = Len(cellLog) + 1 /\ cellLog'[Len(cellLog')].was_tag) =>
          LET tag  == TagOf(cellLog'[Len(cellLog')].token)
              had  == tag \in DOMAIN idmap._origins
              keep(f) == had /\ idmap._origins[tag][f] # UNKNOWN
          IN  /\ DOMAIN idmap'._origins = DOMAIN idmap._origins \cup {tag}
              /\ idmap'._origins[tag].sheetName =
                     (IF keep("sheetName") THEN idmap._origins[tag].sheetName
                      ELSE StripOrUnknown(Target.sheet))
              /\ idmap'._origins[tag].columnName =
                     (IF keep("columnName") THEN idmap._origins[tag].columnName
                      ELSE StripOrUnknown(Col.name))
              /\ \A u \in DOMAIN idmap._origins \ {tag} :
                     idmap'._origins[u] = idmap._origins[u]]_vars

\* C14's case: a tag loaded with the sheet of one observation that took the
\* column of another
C14_Witness ==
    /\ TagB \in DOMAIN idmap._origins
    /\ TagB \in DOMAIN loaded._origins
    /\ loaded._origins[TagB] = [sheetName |-> SheetS1, columnName |-> UNKNOWN]
    /\ idmap._origins[TagB] = [sheetName |-> SheetS1, columnName |-> <<"Q">>]

\* the persisted file holds a record of this tag with this identifier
FileHolds(f, tag, id) ==
    /\ f.kind = "json"
    /\ f.tags.shape = "list"
    /\ \E i \in 1..Len(f.tags.items) :
           f.tags.items[i].string = tag /\ f.tags.items[i].int = <<id>>

\* C15 (partial progress, no rollback): when a run has ended on a failure,
\* every tag it allocated before the failure is in the file it saved, with
\* the identifier it was issued.
C15_PartialProgress ==
    (pc = "done" /\ fi <= Len(targets)) =>
        \A k \in 1..Len(allocLog) : FileHolds(file, allocLog[k].tag, allocLog[k].id)

\* C15's case: a run that failed in a table after allocating a tag in it
C15_Witness ==
    /\ pc = "done"
    /\ fi <= Len(targets)
    /\ allocLog # <<>>
    /\ saves = 1

\* the tags of the '[tag]' occurrences inside a text
RECURSIVE InlineTags(_)
InlineTags(x) ==
    LET i    == FirstIndex(x, "[")
        rest == SubSeq(x, i + 1, Len(x))
        j    == FirstIndex(rest, "]")
    IN  IF i = 0 \/ j = 0 THEN {}
        ELSE IF j = 1 THEN InlineTags(rest)
        ELSE {Strip(SubSeq(rest, 1, j - 1))} \cup InlineTags(SubSeq(rest, j + 1, Len(rest)))

\* the text with every '[tag]' occurrence replaced by text_of[tag]
RECURSIVE InlineReplace(_, _)
InlineReplace(x, text_of) ==
    LET i    == FirstIndex(x, "[")
        rest == SubSeq(x, i + 1, Len(x))
        j    == FirstIndex(rest, "]")
    IN  IF i = 0 \/ j = 0 THEN x
        ELSE IF j = 1 THEN SubSeq(x, 1, i) \o InlineReplace(rest, text_of)
        ELSE SubSeq(x, 1, i - 1) \o text_of[Strip(SubSeq(rest, 1, j - 1))]
                 \o InlineReplace(SubSeq(rest, j + 1, Len(rest)), text_of)

\* C16 (free-text columns are resolved inline): in every converted table,
\* each cell of a column whose base type is not numeric has every '[tag]'
\* occurrence replaced by the decimal text of the identifier the tag was
\* resolved to, a cell without brackets is unchanged, and the column's
\* annotation is the one it had.
C16_InlineResolved ==
    \A sheet \in DOMAIN outputs :
        \A c \in {d \in {TableOf(sheet).columns[i] : i \in 1..Len(TableOf(sheet).columns)} :
                     ~IsNumeric(d)} :
            /\ outputs[sheet].types[c.name] = c.type
            /\ \A k \in 1..Len(c.cells) :
                   LET x == c.cells[k]
                       y == outputs[sheet].text[c.name][k]
                   IN  /\ \A t \in InlineTags(x) : \E p \in issued : p[1] = t
                       /\ y = InlineReplace(x, [t \in InlineTags(x) |->
                                  IntText((CHOOSE p \in issued : p[1] = t)[2])])

\* C17 (literal pass-through leaves the store untouched): resolving a
\* numeric cell that is an integer literal or is empty returns that integer
\* (0 for an empty cell), is not a placeholder resolution (the column is not
\* marked as mapped) and changes nothing of the store.
C17_LiteralFrame ==
    \A i \in 1..Len(cellLog) :
        LET s == Strip(cellLog[i].token)
        IN  (s = <<>> \/ (~IsPlaceholder(cellLog[i].token) /\ IsIntLiteral(s))) =>
                /\ cellLog[i].val = (IF s = <<>> THEN <<"0">> ELSE LiteralText(s))
                /\ ~cellLog[i].was_tag
                /\ ~cellLog[i].changed

\* C18: the file save_id_map wrote holds exactly one record per tag of the
\* in-memory store, with the tag's identifier and its origin (UNKNOWN when
\* none is recorded), and the records are in ascending order of identifier.
C18_SaveSorted ==
    pc = "done" =>
        /\ file.kind = "json"
        /\ file.tags.shape = "list"
        /\ Len(file.tags.items) = Cardinality(DOMAIN idmap.tags)
        /\ \A t \in DOMAIN idmap.tags :
               \E i \in 1..Len(file.tags.items) :
                   file.tags.items[i] =
                       Item(t, <<idmap.tags[t]>>,
                            IF t \in DOMAIN idmap._origins
                            THEN idmap._origins[t].sheetName ELSE UNKNOWN,
                            IF t \in DOMAIN idmap._origins
                            THEN idmap._origins[t].columnName ELSE UNKNOWN)
        /\ \A i, j \in 1..Len(file.tags.items) :
               i < j => file.tags.items[i].int[1] <= file.tags.items[j].int[1]

\* C18's case: a saved store of loaded and newly allocated tags, three or more
C18_Witness ==
    /\ pc = "done"
    /\ saves = 1
    /\ DOMAIN loaded.tags # {}
    /\ allocLog # <<>>
    /\ file.kind = "json"
    /\ Len(file.tags.items) >= 3

\* a persisted file that is absent, unparseable, or whose "tags" is neither
\* an object nor a list
NoUsableFile(f) == f.kind \in {"absent", "corrupt"} \/ f.tags.shape = "other"

\* C19 (load_id_map never fails the run): when the persisted file is absent,
\* unparseable or of no recognised shape, the loaded store has no tags and
\* no origins, the run goes on - its first allocation finds no identifier
\* held - and it ends with the store saved.
C19_LoadTolerant ==
    (pc # "start" /\ NoUsableFile(loadedFrom)) =>
        /\ loaded.tags = EmptyMap
        /\ loaded._origins = EmptyMap
        /\ allocLog # <<>> => allocLog[1].before = {}
        /\ pc = "done" => saves = 1

\* C19's case: a run that found an unparseable file, allocated from the
\* empty store and saved
C19_Witness ==
    /\ pc = "done"
    /\ loadedFrom.kind = "corrupt"
    /\ loaded.tags = EmptyMap
    /\ Len(allocLog) >= 2
    /\ saves = 1

\* C20 (legacy import): after loading a file whose "tags" is a flat object,
\* the store holds every key that maps to an integer, with that integer and
\* the origin (UNKNOWN, UNKNOWN); the file the run then saves has the list
\* shape and a record of each of these tags with the same identifier.
C20_LegacyImport ==
    (pc # "start" /\ loadedFrom.kind = "json" /\ loadedFrom.tags.shape = "dict") =>
        \A i \in {j \in 1..Len(loadedFrom.tags.items) : loadedFrom.tags.items[j].int # <<>>} :
            LET it == loadedFrom.tags.items[i]
            IN  /\ it.string \in DOMAIN loaded.tags
                /\ loaded.tags[it.string] = it.int[1]
                /\ loaded._origins[it.string] = UnknownOrigin
                /\ pc = "done" => FileHolds(file, it.string, it.int[1])

\* C23 (save/load round trip): loading the file a run saved yields the store
\* the run held in memory - the same tag -> identifier map, the same origins
\* and the same next counter.
C23_RoundTrip == pc = "done" => load_id_map(file) = idmap

\* the persisted file is the list form of this store: one record per tag
\* with its identifier and origin, and its next counter
FileIsStore(f, m) ==
    /\ f.kind = "json"
    /\ f.tags.shape = "list"
    /\ f.next = <<m._next>>
    /\ Len(f.tags.items) = Cardinality(DOMAIN m.tags)
    /\ \A t \in DOMAIN m.tags :
           \E i \in 1..Len(f.tags.items) :
               f.tags.items[i] = Item(t, <<m.tags[t]>>, m._origins[t].sheetName,
                                      m._origins[t].columnName)

\* the run that did not save last
Earlier == CHOOSE p \in Procs : p # lastSaver

\* C21 (last writer wins): when two runs loaded the same persisted store,
\* each resolved its own cells and both saved, the persisted file is the
\* store of the run that saved last, it holds no tag that only the earlier
\* saver allocated, and no two of its tags share an identifier.
C21_LastWriterWins ==
    ((\A p \in Procs : proc[p].pc = "done") /\ proc[1].loaded = proc[2].loaded) =>
        /\ FileIsStore(file, proc[lastSaver].idmap)
        /\ \A t \in proc[Earlier].allocated \ DOMAIN proc[lastSaver].idmap.tags :
               \A i \in 1..Len(file.tags.items) : file.tags.items[i].string # t
        /\ FileInjective(file)

\* C21's case: both runs loaded the same store and saved; the earlier saver
\* allocated a tag the later one did not, and the two runs gave one
\* identifier to two different tags
C21_Witness ==
    /\ \A p \in Procs : proc[p].pc = "done"
    /\ proc[1].loaded = proc[2].loaded
    /\ lastSaver \in Procs
    /\ \E t \in proc[Earlier].allocated :
           /\ t \notin DOMAIN proc[lastSaver].idmap.tags
           /\ \E u \in proc[lastSaver].allocated :
                  proc[lastSaver].idmap.tags[u] = proc[Earlier].idmap.tags[t]

\* C22 (the localization rewrite is idempotent): with rewrite enabled, the
\* second call of build_localdata_and_rewrite over the files the first call
\* rewrote returns no LocalData rows and rewrites no file.
C22_RewriteIdempotent ==
    (loc.rewrite_json /\ loc.call = 2 /\ loc.pc = "returned") =>
        /\ loc.output_rows = <<>>
        /\ loc.rewritten_file_count = 0

=============================================================================
